---------------------------- MODULE Spec2Model ----------------------------
(***************************************************************************)
(* A model of the FileEntry wrapper of libyal-rs                            *)
(* (libfsntfs/src/file_entry.rs): ownership of native file-entry handles,   *)
(* the borrow relations the types FileEntry<'a>, Attribute<'_>,             *)
(* IterAttributes<'a> and IterSubEntries<'a, 'b> impose, the two cursors,   *)
(* and the Read / Seek adapters.                                            *)
(*                                                                          *)
(* The native library is the environment.  It is modelled as a read-only    *)
(* image (img): every file entry of the image has img.nSub sub-entries and  *)
(* img.nAttr attributes, the get-by-index call fails for the indexes in     *)
(* img.badSub / img.badAttr and for indexes out of range, and the entry's   *)
(* byte stream is img.data.  Each successful native lookup hands out a      *)
(* fresh handle.                                                            *)
(*                                                                          *)
(* TLC's integers are 32 bits wide, so the machine integers of the code     *)
(* are modelled with scaled widths: c_int / u32 have CountBits bits and     *)
(* off64_t / u64 / isize / usize have OffBits bits.  Every cast of the code *)
(* is modelled by its two's-complement wrap at that width.                  *)
(***************************************************************************)
EXTENDS Integers, Sequences, FiniteSets, TLC

\* ------------------------------------------------------------------ bounds
\* Spec: the FileEntry, Attribute and cursor objects that may be live at a
\* time, and the largest collection of an image.
MaxEntries == 2
MaxAttrs == 1
MaxCursors == 1
MaxCount == 1
\* SpecIter: the same, for the specification of the two cursors.
IterMaxEntries == 2
IterMaxAttrs == 1
IterMaxCursors == 2
IterMaxCount == 2
\* SpecStream: the longest stream and the longest buffer.
MaxData == 3
MaxBuf == 3
\* The scaled widths of c_int / u32 and of off64_t / u64 / isize / usize.
CountBits == 3
OffBits == 4
\* SpecFfi: the handle values a foreign call may write.
MaxFfiHandles == 4

VARIABLES img, volume, nat, entries, attrs, cursors, last, rt

vars == <<img, volume, nat, entries, attrs, cursors, last, rt>>

\* ------------------------------------------------------- machine integers
RECURSIVE Pow2(_)
Pow2(n) == IF n = 0 THEN 1 ELSE 2 * Pow2(n - 1)

\* Two's-complement reinterpretation at a width of `bits` bits.
WrapSigned(x, bits) == ((x + Pow2(bits - 1)) % Pow2(bits)) - Pow2(bits - 1)

WrapUnsigned(x, bits) == x % Pow2(bits)

\* `as u32` / `as i32` (c_int is i32), at the scaled width CountBits.
AsU32(x) == WrapUnsigned(x, CountBits)

AsI32(x) == WrapSigned(x, CountBits)

\* `as i64` (off64_t), `as u64`, `as usize`, at the scaled width OffBits.
AsI64(x) == WrapSigned(x, OffBits)

AsU64(x) == WrapUnsigned(x, OffBits)

AsUsize(x) == WrapUnsigned(x, OffBits)

I32 == (0 - Pow2(CountBits - 1)) .. (Pow2(CountBits - 1) - 1)

I64 == (0 - Pow2(OffBits - 1)) .. (Pow2(OffBits - 1) - 1)

U64 == 0 .. (Pow2(OffBits) - 1)

Min(a, b) == IF a < b THEN a ELSE b

Max(a, b) == IF a > b THEN a ELSE b

\* ------------------------------------------------- the native environment
\* The byte alphabet of the modelled streams.
Bytes == {0, 1}

RECURSIVE SeqsUpTo(_, _)
SeqsUpTo(S, n) ==
    IF n = 0 THEN {<<>>}
    ELSE LET shorter == SeqsUpTo(S, n - 1)
         IN  shorter \cup {Append(q, x) : q \in {r \in shorter : Len(r) = n - 1}, x \in S}

\* The images the native library may be reading: every count the native
\* library reports for a collection is the collection's size (>= 0).
\* The collections of at most maxCount elements: n elements, of which the
\* ones in bad cannot be fetched.
Collections(maxCount) ==
    {[n |-> n, bad |-> b] : n \in 0 .. maxCount, b \in SUBSET (0 .. maxCount - 1)}

Sound(collections) == {c \in collections : c.bad \subseteq 0 .. c.n - 1}

Intact(collections) == {c \in collections : c.bad = {}}

Images(subs, attributes, streams) ==
    {[nSub |-> s.n, badSub |-> s.bad, nAttr |-> a.n, badAttr |-> a.bad, data |-> d] :
        s \in subs, a \in attributes, d \in streams}

\* Status codes of the native library: 1 is success, 0 and -1 are failures.
FailureStatus == {0, 0 - 1}

\* libfsntfs_file_entry_get_sub_file_entry_by_index / _get_attribute_by_index:
\* whether the lookup of index i in a collection of n elements succeeds.
NativeLookupOk(n, bad, i) == i \in 0 .. n - 1 /\ i \notin bad

\* libfsntfs_file_entry_read_buffer: the number of bytes a successful read of
\* buffer_size bytes at offset off returns.
NativeReadCount(data, off, buffer_size) ==
    Min(buffer_size, Max(Len(data) - off, 0))

\* The bytes that read puts into the buffer.
NativeReadBytes(data, off, buffer_size) ==
    SubSeq(data, off + 1, off + NativeReadCount(data, off, buffer_size))

\* libfsntfs_file_entry_seek_offset: the offset the native library computes;
\* it returns -1 (and leaves the offset alone) when this is no valid offset.
NativeSeekTarget(size, off, offset, whence) ==
    CASE whence = "SEEK_SET" -> offset
      [] whence = "SEEK_CUR" -> off + offset
      [] whence = "SEEK_END" -> size + offset

NativeSeekReturn(size, off, offset, whence) ==
    LET t == NativeSeekTarget(size, off, offset, whence)
    IN  IF t < 0 \/ t \notin I64 THEN 0 - 1 ELSE t

\* A native call as the operation made it.
Call(fn, h, a, w, ret) == [fn |-> fn, h |-> h, a |-> a, w |-> w, ret |-> ret]

\* ------------------------------------------------------------ the wrapper
\* Result<T, Error> and io::Result<T>.
Ok(v) == [ok |-> TRUE, val |-> v, err |-> "none"]

Err(kind) == [ok |-> FALSE, val |-> 0, err |-> kind]

\* Error::try_from(error): the bridged native error, or, when the extraction
\* itself fails, the error of the extraction.
Bridge(bridgeOk) == IF bridgeOk THEN "native" ELSE "opaque"

\* FileEntry(ptr, volume): the owned handle and the borrow of the volume.
WrapPtrNoVolume(volumeRef, ptr) == [ptr |-> ptr, vol |-> 0]

WrapPtr(volumeRef, ptr) == [ptr |-> ptr, vol |-> volumeRef]

\* Drop for FileEntry: `debug_assert!(error.is_null(), ..)` fails in a debug
\* build when the native free has written an error object.
DropAssertsInEveryBuild(debug, errorWritten) == errorWritten

DropAsserts(debug, errorWritten) == debug /\ errorWritten

\* Attribute::wrap_ptr(self, attribute): the Attribute borrows the FileEntry.
AttributeWrapPtr(self, attribute) == [ptr |-> attribute, handle |-> self]

\* The scalar getters: get_size, get_number_of_attributes, ...
GetterResultSlotOnFailure(status, value, bridgeOk) == Ok(value)

GetterResult(status, value, bridgeOk) ==
    IF status # 1 THEN Err(Bridge(bridgeOk)) ELSE Ok(value)

\* get_sub_file_entry: self is the FileEntry (ptr, vol).
GetSubFileEntryResultWrapsSelf(self, status, sub_entry, bridgeOk) ==
    IF status # 1 THEN Err(Bridge(bridgeOk)) ELSE Ok(WrapPtr(self.vol, self.ptr))

GetSubFileEntryResult(self, status, sub_entry, bridgeOk) ==
    IF status # 1 THEN Err(Bridge(bridgeOk)) ELSE Ok(WrapPtr(self.vol, sub_entry))

\* get_attribute_by_index: selfId is the FileEntry object the result borrows.
GetAttributeByIndexResultUnanchored(selfId, status, attribute, bridgeOk) ==
    IF status # 1 THEN Err(Bridge(bridgeOk)) ELSE Ok(AttributeWrapPtr(0, attribute))

GetAttributeByIndexResult(selfId, status, attribute, bridgeOk) ==
    IF status # 1 THEN Err(Bridge(bridgeOk)) ELSE Ok(AttributeWrapPtr(selfId, attribute))

\* iter_attributes / iter_sub_entries: count is the Result of the get-count
\* getter; `?` returns its error, and the count is cast with `as u32`.
IterNewCountFailureAsEmpty(selfId, count) ==
    IF ~count.ok THEN Ok([handle |-> selfId, num |-> 0, idx |-> 0])
    ELSE Ok([handle |-> selfId, num |-> AsU32(count.val), idx |-> 0])

IterNewSkipsFirst(selfId, count) ==
    IF ~count.ok THEN count
    ELSE Ok([handle |-> selfId, num |-> AsU32(count.val), idx |-> 1])

IterNew(selfId, count) ==
    IF ~count.ok THEN count
    ELSE Ok([handle |-> selfId, num |-> AsU32(count.val), idx |-> 0])

\* next: `if self.idx < self.num_...`.
HasNextInclusive(c) == c.idx <= c.num

HasNext(c) == c.idx < c.num

\* next: the index handed to the native get-by-index call, `self.idx as i32`.
NextIndexArg(c) == AsI32(c.idx)

\* next: `self.idx += 1`, after the fetch and whatever its result.
AdvanceOnSuccessOnly(c, fetched) ==
    IF fetched.ok THEN [c EXCEPT !.idx = c.idx + 1] ELSE c

Advance(c, fetched) == [c EXCEPT !.idx = c.idx + 1]

\* read: `if read_count <= -1 { Err(..) } else { Ok(read_count as usize) }`.
ReadResultZeroIsError(read_count, bridgeOk) ==
    IF read_count <= 0 THEN Err(Bridge(bridgeOk)) ELSE Ok(AsUsize(read_count))

ReadResultAlwaysEof(read_count, bridgeOk) ==
    IF read_count <= 0 - 1 THEN Err(Bridge(bridgeOk)) ELSE Ok(0)

ReadResult(read_count, bridgeOk) ==
    IF read_count <= 0 - 1 THEN Err(Bridge(bridgeOk)) ELSE Ok(AsUsize(read_count))

\* SeekFrom::Start(u64) | End(i64) | Current(i64).
SeekFrom(kind, k) == [kind |-> kind, k |-> k]

\* seek: the whence of the native call.
SeekWhenceCurrentAsEnd(pos) ==
    CASE pos.kind = "Start" -> "SEEK_SET"
      [] pos.kind = "End" -> "SEEK_END"
      [] pos.kind = "Current" -> "SEEK_END"

SeekWhenceStartAsCurrent(pos) ==
    CASE pos.kind = "Start" -> "SEEK_CUR"
      [] pos.kind = "End" -> "SEEK_END"
      [] pos.kind = "Current" -> "SEEK_CUR"

SeekWhence(pos) ==
    CASE pos.kind = "Start" -> "SEEK_SET"
      [] pos.kind = "End" -> "SEEK_END"
      [] pos.kind = "Current" -> "SEEK_CUR"

\* seek: the offset of the native call, `offset as i64`.
SeekOffsetArgUncast(pos) == pos.k

SeekOffsetArg(pos) == AsI64(pos.k)

\* seek: `if seek_pos <= -1 { Err(..) } else { Ok(seek_pos as u64) }`.
SeekResult(seek_pos, bridgeOk) ==
    IF seek_pos <= 0 - 1 THEN Err(Bridge(bridgeOk)) ELSE Ok(AsU64(seek_pos))

\* ------------------------------------------------------------------ state
\* img      the image the native library reads (it never changes)
\* volume   "live" or "released"
\* nat      the native handles: what each slot currently denotes
\* entries  the FileEntry objects, attrs the Attribute objects, cursors the
\*          IterAttributes / IterSubEntries objects (a slot is reused once
\*          its object is gone)
\* last     the last operation: its native calls and what it returned
\* rt       the script of SpecRoundTrip

\* The record of the last operation: the native calls it made, in order, and
\* what it returned.  `some` tells Some(..) from None for a cursor's next;
\* slot is what became of the native error object (null: none was written,
\* bridged: passed to Error::try_from, leaked: written and dropped); freed
\* is "owned" when the operation freed an allocated file-entry handle and
\* "stale" when it called free on a handle that is not allocated.
Done(op, self, arg, calls, res, some, slot, panic, buf, freed) ==
    [op |-> op, self |-> self, arg |-> arg, calls |-> calls, res |-> res,
     some |-> some, slot |-> slot, panic |-> panic, buf |-> buf, freed |-> freed]

\* The argument of an operation: an index, a buffer length, a SeekFrom.
Arg(kind, k) == [kind |-> kind, k |-> k]

NoArg == Arg("none", 0)

Slot(res) == IF res.ok THEN "null" ELSE "bridged"

RtIdle == [pc |-> 0, k |-> 0, len |-> 0, log |-> <<>>]

\* The stream the entries of Spec carry.
SpecStreams == {<<1>>}

\* elem: the index the handle's element has in its collection (-1: the entry
\* looked up in the volume); off: the stream offset of a file entry.
FreeHandle == [kind |-> "free", elem |-> 0, off |-> 0]

NewHandle(kind, elem) == [kind |-> kind, elem |-> elem, off |-> 0]

\* The FileEntry object as the model keeps it: the fields of the code (ptr,
\* vol), and the object it was obtained from (0: the volume; -1: a
\* FileEntry that has been released since).
NoEntry == [live |-> FALSE, ptr |-> 0, vol |-> 0, from |-> 0]

Object(fe, from) == [live |-> TRUE, ptr |-> fe.ptr, vol |-> fe.vol, from |-> from]

\* The Attribute object: the fields of the code (ptr, handle: the borrowed
\* FileEntry) and the FileEntry it was obtained from (-1: released since).
NoAttr == [live |-> FALSE, ptr |-> 0, handle |-> 0, from |-> 0]

\* The cursor: the fields of the code (handle, num, idx), which of the two
\* cursors it is, the FileEntry it was created from and what it has yielded.
NoCursor ==
    [live |-> FALSE, kind |-> "none", handle |-> 0, from |-> 0, num |-> 0, idx |-> 0,
     out |-> <<>>]

\* The state of a program that has opened a volume on one of `images` and
\* may hold ne FileEntry, na Attribute and nc cursor objects at a time.
InitWith(images, ne, na, nc) ==
    /\ img \in images
    /\ volume = "live"
    /\ nat = [h \in 1 .. ne + na |-> FreeHandle]
    /\ entries = [e \in 1 .. ne |-> NoEntry]
    /\ attrs = [a \in 1 .. na |-> NoAttr]
    /\ cursors = [c \in 1 .. nc |-> NoCursor]
    /\ last = Done("init", 0, NoArg, <<>>, Ok(0), FALSE, "null", FALSE, <<>>, "none")
    /\ rt = RtIdle

Init ==
    InitWith(Images(Intact(Collections(MaxCount)), Intact(Collections(MaxCount)),
                    SpecStreams),
             MaxEntries, MaxAttrs, MaxCursors)

LiveEntries == {e \in DOMAIN entries : entries[e].live}

LiveAttrs == {a \in DOMAIN attrs : attrs[a].live}

LiveCursors == {c \in DOMAIN cursors : cursors[c].live}

\* The first unused slot of a table (0: none).
FirstFree(table) ==
    IF \A x \in DOMAIN table : table[x].live THEN 0
    ELSE CHOOSE x \in DOMAIN table :
            ~table[x].live /\ \A y \in DOMAIN table : ~table[y].live => x <= y

\* The handle the native library hands out next (0: out of handles).
FreshHandle ==
    IF \A h \in DOMAIN nat : nat[h].kind # "free" THEN 0
    ELSE CHOOSE h \in DOMAIN nat :
            nat[h].kind = "free" /\ \A g \in DOMAIN nat : nat[g].kind = "free" => h <= g

\* A FileEntry is borrowed (&'a FileEntry) by the Attributes obtained from it
\* and by the cursors created from it; while it is, it can neither be dropped
\* nor be used through &mut self.
Borrowed(e) ==
    \/ \E a \in LiveAttrs : attrs[a].handle = e
    \/ \E c \in LiveCursors : cursors[c].handle = e

\* The Volume is borrowed (&'a Volume) by every FileEntry<'a>.
VolumeBorrowed == \E e \in LiveEntries : entries[e].vol = 1

\* Volume::get_file_entry_by_mft_idx: a native lookup in the volume, whose
\* handle FileEntry::wrap_ptr takes.
VolumeGetFileEntry ==
    /\ volume = "live"
    /\ FirstFree(entries) # 0
    /\ FreshHandle # 0
    /\ LET h == FreshHandle
           e == FirstFree(entries)
       IN  /\ nat' = [nat EXCEPT ![h] = NewHandle("entry", 0 - 1)]
           /\ entries' = [entries EXCEPT ![e] = Object(WrapPtr(1, h), 0)]
           /\ last' = Done("get_file_entry_by_mft_idx", 0, NoArg,
                           <<Call("volume_get_file_entry_by_index", 0, 0, "", 1)>>,
                           Ok(e), FALSE, "null", FALSE, <<>>, "none")
    /\ UNCHANGED <<img, volume, attrs, cursors, rt>>

\* The state change of self.get_sub_file_entry(i), called on the live entry e
\* directly (op = "get_sub_file_entry") or by a cursor (op = "next").
SubFileEntryStep(op, caller, e, i, fs, bridgeOk, some) ==
    LET self == entries[e]
        status == IF NativeLookupOk(img.nSub, img.badSub, i) THEN 1 ELSE fs
        h == IF status = 1 THEN FreshHandle ELSE 0
        res == GetSubFileEntryResult([ptr |-> self.ptr, vol |-> self.vol],
                                     status, h, bridgeOk)
        new == FirstFree(entries)
        call == Call("get_sub_file_entry_by_index", self.ptr, i, "", status)
    IN  /\ status = 1 => FreshHandle # 0
        /\ res.ok => new # 0
        /\ nat' = IF status = 1 THEN [nat EXCEPT ![h] = NewHandle("entry", i)] ELSE nat
        /\ entries' = IF res.ok THEN [entries EXCEPT ![new] = Object(res.val, e)]
                      ELSE entries
        /\ last' = Done(op, caller, Arg("index", i), <<call>>,
                        IF res.ok THEN Ok(new) ELSE res,
                        some, Slot(res), FALSE, <<>>, "none")

GetSubFileEntry(e, i, fs, bridgeOk) ==
    /\ e \in LiveEntries
    /\ SubFileEntryStep("get_sub_file_entry", e, e, i, fs, bridgeOk, FALSE)
    /\ UNCHANGED <<img, volume, attrs, cursors, rt>>

\* The state change of self.get_attribute_by_index(i).
AttributeStep(op, caller, e, i, fs, bridgeOk, some) ==
    LET self == entries[e]
        status == IF NativeLookupOk(img.nAttr, img.badAttr, i) THEN 1 ELSE fs
        h == IF status = 1 THEN FreshHandle ELSE 0
        res == GetAttributeByIndexResult(e, status, h, bridgeOk)
        new == FirstFree(attrs)
        call == Call("get_attribute_by_index", self.ptr, i, "", status)
    IN  /\ status = 1 => FreshHandle # 0
        /\ res.ok => new # 0
        /\ nat' = IF status = 1 THEN [nat EXCEPT ![h] = NewHandle("attribute", i)] ELSE nat
        /\ attrs' = IF res.ok
                    THEN [attrs EXCEPT ![new] = [live |-> TRUE, ptr |-> res.val.ptr,
                                                 handle |-> res.val.handle, from |-> e]]
                    ELSE attrs
        /\ last' = Done(op, caller, Arg("index", i), <<call>>,
                        IF res.ok THEN Ok(new) ELSE res,
                        some, Slot(res), FALSE, <<>>, "none")

GetAttributeByIndex(e, i, fs, bridgeOk) ==
    /\ e \in LiveEntries
    /\ AttributeStep("get_attribute_by_index", e, e, i, fs, bridgeOk, FALSE)
    /\ UNCHANGED <<img, volume, entries, cursors, rt>>

\* A scalar getter: one native call that writes the value into the output
\* slot (which the code initialises to 0) when it succeeds.
GetterStep(op, fn, e, value, status, bridgeOk) ==
    /\ e \in LiveEntries
    /\ LET res == GetterResult(status, IF status = 1 THEN value ELSE 0, bridgeOk)
       IN  last' = Done(op, e, NoArg, <<Call(fn, entries[e].ptr, 0, "", status)>>,
                        res, FALSE, Slot(res), FALSE, <<>>, "none")
    /\ UNCHANGED <<img, volume, nat, entries, attrs, cursors, rt>>

GetSize(e, status, bridgeOk) ==
    GetterStep("get_size", "get_size", e, Len(img.data), status, bridgeOk)

GetNumberOfAttributes(e, status, bridgeOk) ==
    GetterStep("get_number_of_attributes", "get_number_of_attributes", e, img.nAttr,
               status, bridgeOk)

GetNumberOfSubFileEntries(e, status, bridgeOk) ==
    GetterStep("get_number_of_sub_file_entries", "get_number_of_sub_file_entries", e,
               img.nSub, status, bridgeOk)

\* iter_attributes / iter_sub_entries: the get-count getter, then the cursor.
IterStep(op, kind, fn, e, n, status, bridgeOk) ==
    /\ e \in LiveEntries
    /\ LET count == GetterResult(status, IF status = 1 THEN n ELSE 0, bridgeOk)
           res == IterNew(e, count)
           new == FirstFree(cursors)
       IN  /\ res.ok => new # 0
           /\ cursors' = IF res.ok
                         THEN [cursors EXCEPT ![new] =
                                 [live |-> TRUE, kind |-> kind,
                                  handle |-> res.val.handle, from |-> e,
                                  num |-> res.val.num, idx |-> res.val.idx,
                                  out |-> <<>>]]
                         ELSE cursors
           /\ last' = Done(op, e, NoArg, <<Call(fn, entries[e].ptr, 0, "", status)>>,
                           IF res.ok THEN Ok(new) ELSE res,
                           FALSE, Slot(count), FALSE, <<>>, "none")
    /\ UNCHANGED <<img, volume, nat, entries, attrs, rt>>

IterAttributes(e, status, bridgeOk) ==
    IterStep("iter_attributes", "attributes", "get_number_of_attributes", e, img.nAttr,
             status, bridgeOk)

IterSubEntries(e, status, bridgeOk) ==
    IterStep("iter_sub_entries", "sub_entries", "get_number_of_sub_file_entries", e,
             img.nSub, status, bridgeOk)

\* What a cursor yields for a fetch: the Result, with the element it names.
Item(res, elem) == [ok |-> res.ok, elem |-> IF res.ok THEN elem ELSE 0 - 1]

\* The cursor after a call of next that fetched at index i.
Stepped(c, i) ==
    [Advance(cursors[c], last'.res) EXCEPT !.out = Append(@, Item(last'.res, i))]

\* next at the end of the sequence: None, and nothing else happens.
NextNone(c) ==
    /\ last' = Done("next", c, NoArg, <<>>, Ok(0), FALSE, "null", FALSE, <<>>, "none")
    /\ UNCHANGED <<nat, entries, attrs, cursors>>

\* IterAttributes::next.
IterAttributesNext(c, fs, bridgeOk) ==
    /\ c \in LiveCursors
    /\ cursors[c].kind = "attributes"
    /\ IF HasNext(cursors[c])
       THEN LET i == NextIndexArg(cursors[c])
            IN  /\ AttributeStep("next", c, cursors[c].handle, i, fs, bridgeOk, TRUE)
                /\ cursors' = [cursors EXCEPT ![c] = Stepped(c, i)]
                /\ UNCHANGED entries
       ELSE NextNone(c)
    /\ UNCHANGED <<img, volume, rt>>

\* IterSubEntries::next.
IterSubEntriesNext(c, fs, bridgeOk) ==
    /\ c \in LiveCursors
    /\ cursors[c].kind = "sub_entries"
    /\ IF HasNext(cursors[c])
       THEN LET i == NextIndexArg(cursors[c])
            IN  /\ SubFileEntryStep("next", c, cursors[c].handle, i, fs, bridgeOk, TRUE)
                /\ cursors' = [cursors EXCEPT ![c] = Stepped(c, i)]
                /\ UNCHANGED attrs
       ELSE NextNone(c)
    /\ UNCHANGED <<img, volume, rt>>

\* The tables once the FileEntry e is gone: whatever was obtained from it
\* now has a released parent.
Orphan(table, e) ==
    [x \in DOMAIN table |->
        IF table[x].live /\ table[x].from = e THEN [table[x] EXCEPT !.from = 0 - 1]
        ELSE table[x]]

\* Drop for FileEntry: one call of libfsntfs_file_entry_free, and the debug
\* assertion that the error slot is still null.  The native error object is
\* not handed to Error::try_from.  A FileEntry that is borrowed cannot be
\* dropped.
DropFileEntry(e, status, debug) ==
    /\ e \in LiveEntries
    /\ ~Borrowed(e)
    /\ LET ptr == entries[e].ptr
           owned == nat[ptr].kind = "entry"
       IN  /\ nat' = [nat EXCEPT ![ptr] = FreeHandle]
           /\ entries' = Orphan([entries EXCEPT ![e] = NoEntry], e)
           /\ attrs' = Orphan(attrs, e)
           /\ cursors' = Orphan(cursors, e)
           /\ last' = Done("drop", e, Arg(IF debug THEN "debug" ELSE "release", 0),
                           <<Call("file_entry_free", ptr, 0, "", status)>>,
                           Ok(0), FALSE, IF status = 1 THEN "null" ELSE "leaked",
                           DropAsserts(debug, status # 1), <<>>,
                           IF owned THEN "owned" ELSE "stale")
    /\ UNCHANGED <<img, volume, rt>>

\* Drop for Attribute: the attribute's native free.
DropAttribute(a) ==
    /\ a \in LiveAttrs
    /\ nat' = [nat EXCEPT ![attrs[a].ptr] = FreeHandle]
    /\ attrs' = [attrs EXCEPT ![a] = NoAttr]
    /\ last' = Done("drop_attribute", a, NoArg,
                    <<Call("attribute_free", attrs[a].ptr, 0, "", 1)>>,
                    Ok(0), FALSE, "null", FALSE, <<>>, "none")
    /\ UNCHANGED <<img, volume, entries, cursors, rt>>

\* A cursor going out of scope: it owns no native handle.
DropCursor(c) ==
    /\ c \in LiveCursors
    /\ cursors' = [cursors EXCEPT ![c] = NoCursor]
    /\ last' = Done("drop_cursor", c, NoArg, <<>>, Ok(0), FALSE, "null", FALSE, <<>>,
                    "none")
    /\ UNCHANGED <<img, volume, nat, entries, attrs, rt>>

\* Drop for Volume: possible only when no FileEntry<'a> borrows it.
DropVolume ==
    /\ volume = "live"
    /\ ~VolumeBorrowed
    /\ volume' = "released"
    /\ last' = Done("drop_volume", 0, NoArg, <<Call("volume_free", 0, 0, "", 1)>>,
                    Ok(0), FALSE, "null", FALSE, <<>>, "none")
    /\ UNCHANGED <<img, nat, entries, attrs, cursors, rt>>

\* The buffer after a read that put `bytes` into a zeroed buffer of n bytes.
Buffer(bytes, n) == bytes \o [j \in 1 .. n - Len(bytes) |-> 0]

\* The state change of self.read(buf) with buf.len() = n on the handle ptr.
ReadStep(e, n, fail, bridgeOk) ==
    LET ptr == entries[e].ptr
        off == nat[ptr].off
        read_count == IF fail THEN 0 - 1 ELSE NativeReadCount(img.data, off, n)
        res == ReadResult(read_count, bridgeOk)
    IN  /\ nat' = IF fail THEN nat ELSE [nat EXCEPT ![ptr].off = off + read_count]
        /\ last' = Done("read", e, Arg("len", n),
                        <<Call("read_buffer", ptr, n, "", read_count)>>, res, FALSE,
                        Slot(res), FALSE,
                        Buffer(IF fail THEN <<>> ELSE NativeReadBytes(img.data, off, n), n),
                        "none")

\* impl Read for FileEntry: read(&mut self, buf).
Read(e, n, fail, bridgeOk) ==
    /\ e \in LiveEntries
    /\ ~Borrowed(e)
    /\ ReadStep(e, n, fail, bridgeOk)
    /\ UNCHANGED <<img, volume, entries, attrs, cursors, rt>>

\* The state change of self.seek(pos) on the handle ptr.
SeekStep(e, pos, fail, bridgeOk) ==
    LET ptr == entries[e].ptr
        off == nat[ptr].off
        whence == SeekWhence(pos)
        offset == SeekOffsetArg(pos)
        seek_pos == IF fail THEN 0 - 1
                    ELSE NativeSeekReturn(Len(img.data), off, offset, whence)
        res == SeekResult(seek_pos, bridgeOk)
    IN  /\ nat' = IF seek_pos < 0 THEN nat ELSE [nat EXCEPT ![ptr].off = seek_pos]
        /\ last' = Done("seek", e, pos,
                        <<Call("seek_offset", ptr, offset, whence, seek_pos)>>, res, FALSE,
                        Slot(res), FALSE, <<>>, "none")

\* impl Seek for FileEntry: seek(&mut self, pos).
Seek(e, pos, fail, bridgeOk) ==
    /\ e \in LiveEntries
    /\ ~Borrowed(e)
    /\ SeekStep(e, pos, fail, bridgeOk)
    /\ UNCHANGED <<img, volume, entries, attrs, cursors, rt>>

\* The inputs of the operations in Spec, and the outcomes of the native
\* calls: a lookup by index fails with -1, a getter with 0 or -1.
SpecIndexes == 0 .. MaxCount

SpecReadLens == {1}

SpecSeeks == {SeekFrom("Start", 0)}

SpecLookupFailure == {0 - 1}

Status == {1} \cup FailureStatus

Next ==
    \/ VolumeGetFileEntry
    \/ \E e \in DOMAIN entries, i \in SpecIndexes, fs \in SpecLookupFailure, b \in BOOLEAN :
          GetSubFileEntry(e, i, fs, b)
    \/ \E e \in DOMAIN entries, i \in SpecIndexes, fs \in SpecLookupFailure, b \in BOOLEAN :
          GetAttributeByIndex(e, i, fs, b)
    \/ \E e \in DOMAIN entries, st \in Status, b \in BOOLEAN : GetSize(e, st, b)
    \/ \E e \in DOMAIN entries, st \in Status, b \in BOOLEAN : IterAttributes(e, st, b)
    \/ \E e \in DOMAIN entries, st \in Status, b \in BOOLEAN : IterSubEntries(e, st, b)
    \/ \E c \in DOMAIN cursors, fs \in SpecLookupFailure, b \in BOOLEAN :
          IterAttributesNext(c, fs, b)
    \/ \E c \in DOMAIN cursors, fs \in SpecLookupFailure, b \in BOOLEAN :
          IterSubEntriesNext(c, fs, b)
    \/ \E e \in DOMAIN entries, n \in SpecReadLens, fail \in BOOLEAN, b \in BOOLEAN :
          Read(e, n, fail, b)
    \/ \E e \in DOMAIN entries, pos \in SpecSeeks, fail \in BOOLEAN, b \in BOOLEAN :
          Seek(e, pos, fail, b)
    \/ \E e \in DOMAIN entries, st \in {1, 0 - 1}, debug \in BOOLEAN :
          DropFileEntry(e, st, debug)
    \/ \E a \in DOMAIN attrs : DropAttribute(a)
    \/ \E c \in DOMAIN cursors : DropCursor(c)
    \/ DropVolume

Spec == Init /\ [][Next]_vars

TypeOK == volume \in {"live", "released"}

\* ---------------------------------------------------------------- SpecIter
\* The two cursors on their own: a program that holds one FileEntry of the
\* volume and iterates its attributes and its sub-entries, over every image
\* of at most IterMaxCount elements per collection, some of which cannot be
\* fetched.
RootHeld(ne, na) ==
    /\ nat = [h \in 1 .. ne + na |-> IF h = 1 THEN NewHandle("entry", 0 - 1) ELSE FreeHandle]
    /\ entries = [e \in 1 .. ne |-> IF e = 1 THEN Object(WrapPtr(1, 1), 0) ELSE NoEntry]
    /\ attrs = [a \in 1 .. na |-> NoAttr]

InitIter ==
    /\ img \in Images(Sound(Collections(IterMaxCount)), Sound(Collections(IterMaxCount)),
                      SpecStreams)
    /\ volume = "live"
    /\ RootHeld(IterMaxEntries, IterMaxAttrs)
    /\ cursors = [c \in 1 .. IterMaxCursors |-> NoCursor]
    /\ last = Done("init", 0, NoArg, <<>>, Ok(0), FALSE, "null", FALSE, <<>>, "none")
    /\ rt = RtIdle

NextIter ==
    \/ \E st \in Status, b \in BOOLEAN : IterAttributes(1, st, b)
    \/ \E st \in Status, b \in BOOLEAN : IterSubEntries(1, st, b)
    \/ \E c \in DOMAIN cursors, fs \in SpecLookupFailure, b \in BOOLEAN :
          IterAttributesNext(c, fs, b)
    \/ \E c \in DOMAIN cursors, fs \in SpecLookupFailure, b \in BOOLEAN :
          IterSubEntriesNext(c, fs, b)
    \/ \E e \in DOMAIN entries, st \in {1, 0 - 1}, debug \in BOOLEAN :
          DropFileEntry(e, st, debug)
    \/ \E a \in DOMAIN attrs : DropAttribute(a)
    \/ \E c \in DOMAIN cursors : DropCursor(c)

SpecIter == InitIter /\ [][NextIter]_vars

\* -------------------------------------------------------------- SpecStream
\* The stream adapter on its own: a program that holds one FileEntry and
\* reads and seeks it, over every stream of at most MaxData bytes, every
\* buffer length up to MaxBuf and every SeekFrom value.
SeekInputs ==
    {SeekFrom("Start", k) : k \in U64} \cup
    {SeekFrom(kind, k) : kind \in {"End", "Current"}, k \in I64}

InitStream ==
    /\ img \in Images({[n |-> 0, bad |-> {}]}, {[n |-> 0, bad |-> {}]},
                      SeqsUpTo(Bytes, MaxData))
    /\ volume = "live"
    /\ RootHeld(1, 0)
    /\ cursors = [c \in 1 .. 0 |-> NoCursor]
    /\ last = Done("init", 0, NoArg, <<>>, Ok(0), FALSE, "null", FALSE, <<>>, "none")
    /\ rt = RtIdle

NextStream ==
    \/ \E n \in 0 .. MaxBuf, fail \in BOOLEAN, b \in BOOLEAN : Read(1, n, fail, b)
    \/ \E pos \in SeekInputs, fail \in BOOLEAN, b \in BOOLEAN : Seek(1, pos, fail, b)

SpecStream == InitStream /\ [][NextStream]_vars

\* ----------------------------------------------------------- SpecRoundTrip
\* The program  seek(Start(k)); read(buf); seek(Start(0)); seek(Current(k));
\* read(buf2)  on one FileEntry, with buffers of rt.len bytes, for every
\* stream, every k within it and every offset the entry may be at before.
\* rt.pc is the number of calls made; rt.log keeps, per call, its result,
\* the buffer and the offset it left.
Script(k) ==
    <<[op |-> "seek", pos |-> SeekFrom("Start", k)],
      [op |-> "read", pos |-> SeekFrom("Start", 0)],
      [op |-> "seek", pos |-> SeekFrom("Start", 0)],
      [op |-> "seek", pos |-> SeekFrom("Current", k)],
      [op |-> "read", pos |-> SeekFrom("Start", 0)]>>

InitRoundTrip ==
    /\ img \in Images({[n |-> 0, bad |-> {}]}, {[n |-> 0, bad |-> {}]},
                      SeqsUpTo(Bytes, MaxData))
    /\ volume = "live"
    /\ \E o \in 0 .. Len(img.data) :
          nat = [h \in 1 .. 1 |-> [NewHandle("entry", 0 - 1) EXCEPT !.off = o]]
    /\ entries = [e \in 1 .. 1 |-> Object(WrapPtr(1, 1), 0)]
    /\ attrs = [a \in 1 .. 0 |-> NoAttr]
    /\ cursors = [c \in 1 .. 0 |-> NoCursor]
    /\ last = Done("init", 0, NoArg, <<>>, Ok(0), FALSE, "null", FALSE, <<>>, "none")
    /\ \E k \in 0 .. Len(img.data), len \in 0 .. MaxBuf :
          rt = [pc |-> 0, k |-> k, len |-> len, log |-> <<>>]

Logged == [res |-> last'.res, buf |-> last'.buf, off |-> nat'[1].off]

RoundTripSeek(fail, bridgeOk) ==
    /\ rt.pc < Len(Script(rt.k))
    /\ Script(rt.k)[rt.pc + 1].op = "seek"
    /\ SeekStep(1, Script(rt.k)[rt.pc + 1].pos, fail, bridgeOk)
    /\ rt' = [rt EXCEPT !.pc = @ + 1, !.log = Append(@, Logged)]
    /\ UNCHANGED <<img, volume, entries, attrs, cursors>>

RoundTripRead(fail, bridgeOk) ==
    /\ rt.pc < Len(Script(rt.k))
    /\ Script(rt.k)[rt.pc + 1].op = "read"
    /\ ReadStep(1, rt.len, fail, bridgeOk)
    /\ rt' = [rt EXCEPT !.pc = @ + 1, !.log = Append(@, Logged)]
    /\ UNCHANGED <<img, volume, entries, attrs, cursors>>

NextRoundTrip ==
    \/ \E fail \in BOOLEAN, b \in BOOLEAN : RoundTripSeek(fail, b)
    \/ \E fail \in BOOLEAN, b \in BOOLEAN : RoundTripRead(fail, b)

SpecRoundTrip == InitRoundTrip /\ [][NextRoundTrip]_vars

\* ----------------------------------------------------------- SpecReadToEnd
\* entry.read_to_end(&mut buf) (std::io::Read::read_to_end over the read of
\* FileEntry) on an entry at offset rt.p: read is called with a non-empty
\* buffer until it returns Ok(0), the bytes of every Ok(n) are appended to
\* rt.acc, and an Err ends the loop with that error.  rt.failed tells
\* whether a native read has failed.
InitReadToEnd ==
    /\ img \in Images({[n |-> 0, bad |-> {}]}, {[n |-> 0, bad |-> {}]},
                      SeqsUpTo(Bytes, MaxData))
    /\ volume = "live"
    /\ entries = [e \in 1 .. 1 |-> Object(WrapPtr(1, 1), 0)]
    /\ attrs = [a \in 1 .. 0 |-> NoAttr]
    /\ cursors = [c \in 1 .. 0 |-> NoCursor]
    /\ last = Done("init", 0, NoArg, <<>>, Ok(0), FALSE, "null", FALSE, <<>>, "none")
    /\ \E p \in 0 .. Len(img.data) :
          /\ nat = [h \in 1 .. 1 |-> [NewHandle("entry", 0 - 1) EXCEPT !.off = p]]
          /\ rt = [pc |-> "reading", p |-> p, acc |-> <<>>, res |-> Ok(0),
                   failed |-> FALSE]

ReadToEndStep(n, fail, bridgeOk) ==
    /\ rt.pc = "reading"
    /\ ReadStep(1, n, fail, bridgeOk)
    /\ rt' = IF ~last'.res.ok
             THEN [rt EXCEPT !.pc = "done", !.res = last'.res, !.failed = fail]
             ELSE IF last'.res.val = 0
             THEN [rt EXCEPT !.pc = "done", !.res = Ok(Len(rt.acc))]
             ELSE [rt EXCEPT !.acc = @ \o SubSeq(last'.buf, 1, last'.res.val)]
    /\ UNCHANGED <<img, volume, entries, attrs, cursors>>

NextReadToEnd ==
    \E n \in 1 .. MaxBuf, fail \in BOOLEAN, b \in BOOLEAN : ReadToEndStep(n, fail, b)

\* The loop is run until it returns.
SpecReadToEnd == InitReadToEnd /\ [][NextReadToEnd]_vars /\ WF_vars(NextReadToEnd)

\* ------------------------------------------------------------- SpecGetters
\* libfsntfs_file_entry_get_file_reference / _get_parent_file_reference:
\* the references the native library writes for the entry a handle denotes
\* (elem -1: the entry looked up in the volume, whose sub-entries have the
\* elems 0, 1, ...).
NativeFileReference(elem) == elem + 2

NativeParentFileReference(elem) == IF elem = 0 - 1 THEN 0 ELSE 1

GetParentFileReference(e, status, bridgeOk) ==
    GetterStep("get_parent_file_reference", "get_parent_file_reference", e,
               NativeParentFileReference(nat[entries[e].ptr].elem), status, bridgeOk)

GetFileReference(e, status, bridgeOk) ==
    GetterStep("get_file_reference", "get_file_reference", e,
               NativeFileReference(nat[entries[e].ptr].elem), status, bridgeOk)

\* The streams of SpecGetters: one of every size up to MaxData.
GetterStreams == {[j \in 1 .. n |-> 0] : n \in 0 .. MaxData}

\* A program that holds one FileEntry of the volume and calls the getters
\* and the lookups on it and on its sub-entries, every native call being
\* free to fail with 0 or with -1.
InitGetters ==
    /\ img \in Images(Sound(Collections(MaxCount)), Sound(Collections(MaxCount)),
                      GetterStreams)
    /\ volume = "live"
    /\ RootHeld(MaxEntries, MaxAttrs)
    /\ cursors = [c \in 1 .. 0 |-> NoCursor]
    /\ last = Done("init", 0, NoArg, <<>>, Ok(0), FALSE, "null", FALSE, <<>>, "none")
    /\ rt = RtIdle

NextGetters ==
    \/ \E e \in DOMAIN entries, st \in Status, b \in BOOLEAN : GetSize(e, st, b)
    \/ \E e \in DOMAIN entries, st \in Status, b \in BOOLEAN :
          GetNumberOfAttributes(e, st, b)
    \/ \E e \in DOMAIN entries, st \in Status, b \in BOOLEAN :
          GetNumberOfSubFileEntries(e, st, b)
    \/ \E e \in DOMAIN entries, st \in Status, b \in BOOLEAN :
          GetParentFileReference(e, st, b)
    \/ \E e \in DOMAIN entries, st \in Status, b \in BOOLEAN : GetFileReference(e, st, b)
    \/ \E e \in DOMAIN entries, i \in SpecIndexes, fs \in FailureStatus, b \in BOOLEAN :
          GetSubFileEntry(e, i, fs, b)
    \/ \E e \in DOMAIN entries, i \in SpecIndexes, fs \in FailureStatus, b \in BOOLEAN :
          GetAttributeByIndex(e, i, fs, b)
    \/ \E e \in DOMAIN entries : DropFileEntry(e, 1, FALSE)
    \/ \E a \in DOMAIN attrs : DropAttribute(a)

SpecGetters == InitGetters /\ [][NextGetters]_vars

\* ----------------------------------------------------------- SpecAccessors
\* The public accessors of FileEntry whose body is `unimplemented!()`.
UnimplementedAccessors ==
    {"get_access_time", "get_alternate_data_stream", "get_alternate_data_stream_by_name",
     "get_base_record_file_reference", "get_creation_time",
     "get_creation_time_as_integer", "get_entry_modification_time",
     "get_entry_modification_time_as_integer", "get_extent", "get_file_attribute_flags",
     "get_journal_sequence_number", "get_modification_time",
     "get_modification_time_as_integer", "get_name_attribute_index",
     "get_name_by_attribute_index", "get_number_of_alternate_data_streams",
     "get_number_of_extents", "get_parent_file_reference_by_attribute_index",
     "get_reparse_point_print_name", "get_reparse_point_substitute_name",
     "get_security_descriptor_data", "has_alternate_data_stream_by_name",
     "has_default_data_stream", "has_directory_entries_index", "is_empty"}

\* `unimplemented!()`: the call panics before any native call is made and
\* returns nothing.
Unimplemented(e, name) ==
    /\ e \in LiveEntries
    /\ last' = Done(name, e, NoArg, <<>>, Err("panic"), FALSE, "null", TRUE, <<>>, "none")
    /\ UNCHANGED <<img, volume, nat, entries, attrs, cursors, rt>>

\* The program of SpecGetters, which may also call any other public accessor.
NextAccessors ==
    \/ NextGetters
    \/ \E e \in DOMAIN entries, name \in UnimplementedAccessors : Unimplemented(e, name)

SpecAccessors == InitGetters /\ [][NextAccessors]_vars

\* ----------------------------------------------------------------- SpecFfi
\* A pointer to a handle slot, as handed to a foreign call that writes a
\* handle through it: target is the storage it addresses (slot: the handle
\* slot of the object; local: the variable `ptr` of as_ffi_ptr's own stack
\* frame) and live tells whether that storage still exists once the
\* function that made the pointer has returned.
\* AsFFIPtr::as_ffi_ptr as impl_as_ffi_ptr! and impl_as_ffi_ptr_primitive!
\* generate it: `let mut ptr = ..; &mut ptr as *mut _`.
AsFfiPtr(kind) == [target |-> "local", live |-> FALSE]

\* AsTypeRef::as_raw of FileEntry: `&mut self.0 as *mut _`.
AsRaw(kind) == [target |-> "slot", live |-> TRUE]

\* The types that hand out such a pointer, and how.
FfiKinds == {"struct", "primitive", "FileEntry"}

SlotPointer(kind) == IF kind = "FileEntry" THEN AsRaw(kind) ELSE AsFfiPtr(kind)

\* What a write through a pointer to dead storage can do: the handle is
\* written where nothing reads it, over a live variable of another frame,
\* or the process stops.
DanglingWrite == {"lost", "corrupts", "crash"}

FfiHandles == 0 .. MaxFfiHandles

\* rt.slot is the object's handle slot, rt.ptr the pointer obtained last,
\* rt.wrote the handle the foreign call wrote through it and rt.outcome
\* what the write did.
InitFfi ==
    /\ img \in Images({[n |-> 0, bad |-> {}]}, {[n |-> 0, bad |-> {}]}, {<<>>})
    /\ volume = "live"
    /\ nat = [h \in 1 .. 0 |-> FreeHandle]
    /\ entries = [e \in 1 .. 0 |-> NoEntry]
    /\ attrs = [a \in 1 .. 0 |-> NoAttr]
    /\ cursors = [c \in 1 .. 0 |-> NoCursor]
    /\ last = Done("init", 0, NoArg, <<>>, Ok(0), FALSE, "null", FALSE, <<>>, "none")
    /\ \E kind \in FfiKinds, held \in FfiHandles :
          rt = [pc |-> "held", kind |-> kind, slot |-> held, ptr |-> AsRaw(kind),
                wrote |-> 0, outcome |-> "none"]

\* The object hands out the pointer to its handle slot.
TakeSlotPointer ==
    /\ rt.pc \in {"held", "written"}
    /\ rt.outcome # "crash"
    /\ rt' = [rt EXCEPT !.pc = "pointer", !.ptr = SlotPointer(rt.kind)]
    /\ UNCHANGED <<img, volume, nat, entries, attrs, cursors, last>>

\* The foreign call writes the handle h through the pointer.
ForeignWrite(h, outcome) ==
    /\ rt.pc = "pointer"
    /\ rt' = IF rt.ptr.target = "slot" /\ rt.ptr.live
             THEN [rt EXCEPT !.pc = "written", !.slot = h, !.wrote = h,
                             !.outcome = "stored"]
             ELSE [rt EXCEPT !.pc = "written", !.wrote = h, !.outcome = outcome]
    /\ UNCHANGED <<img, volume, nat, entries, attrs, cursors, last>>

NextFfi ==
    \/ TakeSlotPointer
    \/ \E h \in FfiHandles, outcome \in DanglingWrite : ForeignWrite(h, outcome)

SpecFfi == InitFfi /\ [][NextFfi]_vars

\* --------------------------------------------------------------- SpecCounts
\* The cursors over every count a c_int can hold: the native get-count call
\* writes the count n and returns the status 1, also for n < 0.
SignedCounts == {[n |-> n, bad |-> {}] : n \in I32}

InitCounts ==
    /\ img \in Images(SignedCounts, SignedCounts, SpecStreams)
    /\ volume = "live"
    /\ RootHeld(IterMaxEntries, IterMaxAttrs)
    /\ cursors = [c \in 1 .. MaxCursors |-> NoCursor]
    /\ last = Done("init", 0, NoArg, <<>>, Ok(0), FALSE, "null", FALSE, <<>>, "none")
    /\ rt = RtIdle

NextCounts ==
    \/ \E b \in BOOLEAN : IterAttributes(1, 1, b)
    \/ \E b \in BOOLEAN : IterSubEntries(1, 1, b)
    \/ \E c \in DOMAIN cursors, fs \in SpecLookupFailure, b \in BOOLEAN :
          IterAttributesNext(c, fs, b)
    \/ \E c \in DOMAIN cursors, fs \in SpecLookupFailure, b \in BOOLEAN :
          IterSubEntriesNext(c, fs, b)
    \/ \E e \in DOMAIN entries : DropFileEntry(e, 1, FALSE)
    \/ \E a \in DOMAIN attrs : DropAttribute(a)
    \/ \E c \in DOMAIN cursors : DropCursor(c)

SpecCounts == InitCounts /\ [][NextCounts]_vars

\* ------------------------------------------------------------------ claims
\* C1: every native file-entry handle that is allocated is owned by exactly
\* one live FileEntry, every live FileEntry owns an allocated file-entry
\* handle, and libfsntfs_file_entry_free is called only by drop, once, on a
\* handle that was still allocated (never on one already freed), so no
\* handle is freed twice and none is freed by any other operation.
C1_OwnedByOneFreedAtDrop ==
    /\ \A h \in DOMAIN nat :
          nat[h].kind = "entry" =>
             Cardinality({e \in LiveEntries : entries[e].ptr = h}) = 1
    /\ \A e \in LiveEntries :
          entries[e].ptr \in DOMAIN nat /\ nat[entries[e].ptr].kind = "entry"
    /\ last.freed # "stale"
    /\ IF last.op = "drop"
       THEN /\ Len(last.calls) = 1
            /\ last.calls[1].fn = "file_entry_free"
            /\ last.freed = "owned"
            /\ nat[last.calls[1].h].kind = "free"
            /\ \A e \in LiveEntries : entries[e].ptr # last.calls[1].h
       ELSE /\ last.freed = "none"
            /\ \A j \in DOMAIN last.calls : last.calls[j].fn # "file_entry_free"

\* A drop has freed the handle of a FileEntry while a sub-entry, whose
\* parent is gone, is still live with its own handle.
C1_Witness ==
    /\ last.op = "drop"
    /\ last.freed = "owned"
    /\ \E e \in LiveEntries : entries[e].from = 0 - 1 /\ nat[entries[e].ptr].elem >= 0

\* C2: a live Attribute and a live cursor have a parent FileEntry that has
\* not been released (it is the FileEntry they borrow, and it is live), and
\* while any FileEntry is live the Volume it borrows has not been released.
C2_ParentNotReleased ==
    /\ \A a \in LiveAttrs :
          /\ attrs[a].from # 0 - 1
          /\ attrs[a].handle = attrs[a].from
          /\ attrs[a].handle \in LiveEntries
    /\ \A c \in LiveCursors :
          /\ cursors[c].from # 0 - 1
          /\ cursors[c].handle = cursors[c].from
          /\ cursors[c].handle \in LiveEntries
    /\ \A e \in LiveEntries : entries[e].vol = 1 /\ volume = "live"

\* A FileEntry has been dropped while an Attribute and a cursor of another
\* FileEntry are live.
C2_Witness ==
    /\ last.op = "drop"
    /\ LiveAttrs # {}
    /\ LiveCursors # {}

\* C3 as stated: a live sub-entry's parent FileEntry has not been released.
C3_ParentEntryOutlivesSubEntry ==
    \A e \in LiveEntries : entries[e].from # 0 - 1

\* C3: a live sub-entry FileEntry is outlived by the Volume its parent was
\* obtained from (the parent FileEntry itself may have been released).
C3_VolumeOutlivesSubEntry ==
    \A e \in LiveEntries :
       entries[e].from # 0 => entries[e].vol = 1 /\ volume = "live"

\* The parent FileEntry of a live sub-entry has been dropped.
C3_Witness ==
    /\ last.op = "drop"
    /\ volume = "live"
    /\ \E e \in LiveEntries : entries[e].from = 0 - 1

\* C4: a cursor of iter_sub_entries on a FileEntry with N sub-entries has
\* yielded, at any time, the Results of the native get-by-index calls for
\* the indexes 0, 1, ... in this order, one item per index and at most N;
\* when it has yielded end-of-sequence it has yielded exactly N items; and
\* two cursors created on the same FileEntry that have both reached the end
\* have yielded the same items.
C4_SubEntriesYieldsEachIndexOnce ==
    /\ \A c \in LiveCursors :
          cursors[c].kind = "sub_entries" =>
             /\ Len(cursors[c].out) <= img.nSub
             /\ \A j \in 1 .. Len(cursors[c].out) :
                   cursors[c].out[j] =
                      IF NativeLookupOk(img.nSub, img.badSub, j - 1)
                      THEN [ok |-> TRUE, elem |-> j - 1]
                      ELSE [ok |-> FALSE, elem |-> 0 - 1]
             /\ (last.op = "next" /\ last.self = c /\ ~last.some) =>
                   Len(cursors[c].out) = img.nSub
    /\ \A c \in LiveCursors, d \in LiveCursors :
          (/\ cursors[c].kind = "sub_entries"
           /\ cursors[d].kind = "sub_entries"
           /\ cursors[c].from = cursors[d].from
           /\ cursors[c].idx = cursors[c].num
           /\ cursors[d].idx = cursors[d].num) =>
             cursors[c].out = cursors[d].out

\* Two cursors on the same FileEntry, which has two sub-entries of which
\* the first cannot be fetched, have both been run to the end.
C4_Witness ==
    /\ img.nSub = 2
    /\ img.badSub = {0}
    /\ last.op = "next"
    /\ ~last.some
    /\ \E c \in LiveCursors, d \in LiveCursors :
          /\ c # d
          /\ cursors[c].kind = "sub_entries"
          /\ cursors[d].kind = "sub_entries"
          /\ Len(cursors[c].out) = 2
          /\ Len(cursors[d].out) = 2

\* C5: a call of next on a cursor with idx < num makes exactly one native
\* get-by-index call, at idx, adds one to idx whether the call succeeded or
\* not, and yields Some of its Result (an error for a failed call); a call
\* with idx = num yields None, makes no native call and leaves the cursor as
\* it is, so every later call does the same.
C5_NextFetchesOnceAndAdvances ==
    [][last'.op = "next" =>
          LET c == last'.self
              before == cursors[c]
              after == cursors'[c]
          IN  /\ before.live
              /\ after.live
              /\ IF before.idx < before.num
                 THEN /\ last'.some
                      /\ Len(last'.calls) = 1
                      /\ last'.calls[1].fn =
                            (IF before.kind = "attributes" THEN "get_attribute_by_index"
                             ELSE "get_sub_file_entry_by_index")
                      /\ last'.calls[1].h = entries[before.handle].ptr
                      /\ last'.calls[1].a = before.idx
                      /\ after.idx = before.idx + 1
                      /\ after.num = before.num
                      /\ last'.res.ok = (last'.calls[1].ret = 1)
                      /\ Len(after.out) = Len(before.out) + 1
                      /\ after.out[Len(after.out)].ok = last'.res.ok
                 ELSE /\ ~last'.some
                      /\ last'.calls = <<>>
                      /\ cursors' = cursors
                      /\ nat' = nat]_vars

\* A fetch has failed, the cursor has gone on to yield the next element, and
\* has then yielded end-of-sequence.
C5_Witness ==
    /\ last.op = "next"
    /\ ~last.some
    /\ \E c \in LiveCursors :
          /\ last.self = c
          /\ cursors[c].idx = 2
          /\ ~cursors[c].out[1].ok
          /\ cursors[c].out[2].ok

\* C6: the native get-count call is made by iter_attributes and
\* iter_sub_entries, once each, and by no step of a cursor; a step never
\* changes a cursor's num, never decreases its idx, and 0 <= idx <= num
\* holds of every cursor.
C6_CountFixedIndexBounded ==
    [][/\ \A c \in DOMAIN cursors :
             cursors'[c].live =>
                /\ 0 <= cursors'[c].idx
                /\ cursors'[c].idx <= cursors'[c].num
                /\ cursors[c].live =>
                      /\ cursors'[c].num = cursors[c].num
                      /\ cursors'[c].idx >= cursors[c].idx
       /\ Cardinality({j \in DOMAIN last'.calls :
                          last'.calls[j].fn \in {"get_number_of_attributes",
                                                 "get_number_of_sub_file_entries"}})
             = (IF last'.op \in {"iter_attributes", "iter_sub_entries"} THEN 1 ELSE 0)]_vars

\* A cursor over two elements has reached the end and been asked again.
C6_Witness ==
    /\ last.op = "next"
    /\ ~last.some
    /\ \E c \in LiveCursors : last.self = c /\ cursors[c].num = 2 /\ cursors[c].idx = 2

\* C7: when the native get-count call returns a status other than 1,
\* iter_attributes and iter_sub_entries alike return Err: the call is the
\* only native call made, and no cursor is created.
C7_CountFailureIsConstructionError ==
    [][(/\ last'.op \in {"iter_attributes", "iter_sub_entries"}
        /\ last'.calls[1].ret # 1) =>
          /\ ~last'.res.ok
          /\ Len(last'.calls) = 1
          /\ last'.calls[1].fn =
                (IF last'.op = "iter_attributes" THEN "get_number_of_attributes"
                 ELSE "get_number_of_sub_file_entries")
          /\ cursors' = cursors
          /\ nat' = nat]_vars

\* iter_sub_entries has failed on a FileEntry of which iter_attributes had
\* made a cursor.
C7_Witness ==
    /\ last.op = "iter_sub_entries"
    /\ ~last.res.ok
    /\ last.calls[1].ret = 0
    /\ Cardinality(LiveCursors) = 1
    /\ \E c \in LiveCursors : cursors[c].kind = "attributes"

\* C8: read makes one native read call and returns Err exactly when the
\* call returned a negative value, whether the native error could be
\* extracted or not; for a return n >= 0 it returns Ok(n), so a read at the
\* end of the stream returns Ok(0).
C8_ReadErrorIffNegative ==
    last.op = "read" =>
       /\ Len(last.calls) = 1
       /\ last.calls[1].fn = "read_buffer"
       /\ last.calls[1].a = last.arg.k
       /\ (~last.res.ok) <=> (last.calls[1].ret < 0)
       /\ last.calls[1].ret >= 0 => last.res = Ok(last.calls[1].ret)
       /\ last.calls[1].ret < 0 => last.res.err \in {"native", "opaque"}

\* A read into a non-empty buffer at the end of a non-empty stream has
\* returned Ok(0).
C8_Witness ==
    /\ last.op = "read"
    /\ last.arg.k > 0
    /\ Len(img.data) > 0
    /\ nat[entries[last.self].ptr].off = Len(img.data)
    /\ last.calls[1].ret = 0
    /\ last.res = Ok(0)

\* C9 as stated: seek makes one native seek call with the whence of pos and
\* the offset k itself, and returns Err exactly when the call returned a
\* negative value and Ok of the returned value otherwise.
C9_SeekPassesOffsetK ==
    last.op = "seek" =>
       /\ Len(last.calls) = 1
       /\ last.calls[1].fn = "seek_offset"
       /\ last.calls[1].w = (CASE last.arg.kind = "Start" -> "SEEK_SET"
                               [] last.arg.kind = "End" -> "SEEK_END"
                               [] last.arg.kind = "Current" -> "SEEK_CUR")
       /\ last.calls[1].a = last.arg.k
       /\ (~last.res.ok) <=> (last.calls[1].ret < 0)
       /\ last.calls[1].ret >= 0 => last.res = Ok(last.calls[1].ret)

\* C9: seek makes one native seek call with the whence of pos and with the
\* offset k reinterpreted as a signed 64-bit value: k for End(k), Current(k)
\* and Start(k) below 2^63, k - 2^64 for Start(k) from 2^63 on; it returns
\* Err exactly when the call returned a negative value, whether the native
\* error could be extracted or not, and Ok of the returned value otherwise.
C9_SeekPassesOffsetAsSigned ==
    last.op = "seek" =>
       /\ Len(last.calls) = 1
       /\ last.calls[1].fn = "seek_offset"
       /\ last.calls[1].w = (CASE last.arg.kind = "Start" -> "SEEK_SET"
                               [] last.arg.kind = "End" -> "SEEK_END"
                               [] last.arg.kind = "Current" -> "SEEK_CUR")
       /\ last.calls[1].a =
             (IF last.arg.kind = "Start" /\ last.arg.k >= Pow2(OffBits - 1)
              THEN last.arg.k - Pow2(OffBits) ELSE last.arg.k)
       /\ (~last.res.ok) <=> (last.calls[1].ret < 0)
       /\ last.calls[1].ret >= 0 => last.res = Ok(last.calls[1].ret)
       /\ last.calls[1].ret < 0 => last.res.err \in {"native", "opaque"}

\* seek(Start(k)) with k beyond the largest signed offset has made the
\* native call with a negative offset and has returned Err.
C9_Witness ==
    /\ last.op = "seek"
    /\ last.arg.kind = "Start"
    /\ last.arg.k >= Pow2(OffBits - 1)
    /\ last.calls[1].a < 0
    /\ ~last.res.ok

\* C10: when the five calls seek(Start(k)); read(buf); seek(Start(0));
\* seek(Current(k)); read(buf2), with k within the stream and buffers of
\* the same length, have all returned Ok, the two reads have left the same
\* offset, returned the same count and filled the buffers alike.
C10_SeekStartAndSeekCurrentAgree ==
    (/\ rt.pc = 5
     /\ \A j \in 1 .. 5 : rt.log[j].res.ok) =>
       /\ rt.log[2].off = rt.log[5].off
       /\ rt.log[2].buf = rt.log[5].buf
       /\ rt.log[2].res = rt.log[5].res
       /\ rt.log[1].res = rt.log[4].res

\* The five calls have returned Ok, with k > 0, and the reads have read
\* bytes of which one is not zero.
C10_Witness ==
    /\ rt.pc = 5
    /\ \A j \in 1 .. 5 : rt.log[j].res.ok
    /\ rt.k > 0
    /\ rt.log[5].res.val > 0
    /\ \E j \in DOMAIN rt.log[5].buf : rt.log[5].buf[j] = 1

\* C11: read_to_end returns: it calls read until the first read that
\* returns Ok(0), and when no native read has failed it returns Ok with the
\* S - p bytes of the stream from the offset p it started at to the end.
C11_ReadToEndTerminatesWithRest ==
    /\ [](rt.pc = "done" /\ ~rt.failed =>
             /\ last.op = "read"
             /\ last.res = Ok(0)
             /\ rt.res = Ok(Len(img.data) - rt.p)
             /\ rt.acc = SubSeq(img.data, rt.p + 1, Len(img.data)))
    /\ <>(rt.pc = "done")

\* A stream of three bytes has been read to its end from offset 0 without a
\* failing read.
C11_Witness ==
    /\ rt.pc = "done"
    /\ ~rt.failed
    /\ rt.p = 0
    /\ Len(img.data) = 3
    /\ rt.acc = img.data
    /\ rt.res = Ok(3)

\* C12: a FileEntry just obtained is at offset 0; a successful
\* seek(Start(k)) leaves the offset at k and returns k; a successful read
\* into a buffer of n bytes at offset off returns min(off + n, size) - off
\* (0 beyond the end), fills the buffer with the bytes of the stream from
\* off on, and adds the returned count to the offset, so the next read
\* continues where this one ended; hence a read right after a successful
\* seek(Start(k)) yields the bytes k .. min(k + n, size) - 1.
C12_ReadsConsecutiveRanges ==
    /\ \A e \in LiveEntries : nat[entries[e].ptr].off = 0
    /\ [][LET ptr == entries[last'.self].ptr
              off == nat[ptr].off
              size == Len(img.data)
              n == last'.arg.k
              count == last'.res.val
          IN  /\ (last'.op = "seek" /\ last'.arg.kind = "Start" /\ last'.res.ok) =>
                    /\ nat'[ptr].off = last'.arg.k
                    /\ last'.res.val = last'.arg.k
              /\ (last'.op = "read" /\ last'.res.ok) =>
                    /\ count = Max(Min(off + n, size) - off, 0)
                    /\ Len(last'.buf) = n
                    /\ SubSeq(last'.buf, 1, count) = SubSeq(img.data, off + 1, off + count)
                    /\ nat'[ptr].off = off + count
              /\ (/\ last.op = "seek" /\ last.arg.kind = "Start" /\ last.res.ok
                  /\ last'.op = "read" /\ last'.res.ok) =>
                    SubSeq(last'.buf, 1, count) =
                       SubSeq(img.data, last.arg.k + 1, Min(last.arg.k + n, size))]_vars

\* After seek(Start(1)) a read of two bytes has returned the second and the
\* third byte of a stream of three and left the offset at 3.
C12_Witness ==
    /\ last.op = "read"
    /\ last.res = Ok(2)
    /\ Len(img.data) = 3
    /\ nat[entries[last.self].ptr].off = 3
    /\ last.buf = SubSeq(img.data, 2, 3)
    /\ last.buf[2] = 1

\* C13: get_size, get_number_of_attributes, get_number_of_sub_file_entries,
\* get_parent_file_reference and get_file_reference make one native call and
\* return Err exactly when its status is not 1 and Ok of the value the
\* native call wrote otherwise; get_sub_file_entry and get_attribute_by_index
\* return Err exactly when the status is not 1, creating no object then, and
\* otherwise a new object that owns the (non-null) handle the native call
\* wrote for the index asked for.
C13_GettersErrorIffStatusNotOne ==
    [][LET op == last'.op
           ret == last'.calls[1].ret
           res == last'.res
           self == last'.self
       IN  /\ op \in {"get_size", "get_number_of_attributes",
                      "get_number_of_sub_file_entries", "get_parent_file_reference",
                      "get_file_reference"} =>
                 /\ Len(last'.calls) = 1
                 /\ last'.calls[1].fn = op
                 /\ last'.calls[1].h = entries[self].ptr
                 /\ res.ok <=> (ret = 1)
                 /\ ret = 1 =>
                       res.val =
                          (CASE op = "get_size" -> Len(img.data)
                             [] op = "get_number_of_attributes" -> img.nAttr
                             [] op = "get_number_of_sub_file_entries" -> img.nSub
                             [] op = "get_parent_file_reference" ->
                                   NativeParentFileReference(nat[entries[self].ptr].elem)
                             [] op = "get_file_reference" ->
                                   NativeFileReference(nat[entries[self].ptr].elem))
                 /\ UNCHANGED <<nat, entries, attrs, cursors>>
           /\ op = "get_sub_file_entry" =>
                 /\ Len(last'.calls) = 1
                 /\ res.ok <=> (ret = 1)
                 /\ ret # 1 => UNCHANGED <<nat, entries, attrs>>
                 /\ ret = 1 =>
                       /\ ~entries[res.val].live
                       /\ entries'[res.val].live
                       /\ entries'[res.val].ptr # 0
                       /\ nat[entries'[res.val].ptr].kind = "free"
                       /\ nat'[entries'[res.val].ptr] = NewHandle("entry", last'.arg.k)
           /\ op = "get_attribute_by_index" =>
                 /\ Len(last'.calls) = 1
                 /\ res.ok <=> (ret = 1)
                 /\ ret # 1 => UNCHANGED <<nat, entries, attrs>>
                 /\ ret = 1 =>
                       /\ ~attrs[res.val].live
                       /\ attrs'[res.val].live
                       /\ attrs'[res.val].ptr # 0
                       /\ nat[attrs'[res.val].ptr].kind = "free"
                       /\ nat'[attrs'[res.val].ptr] = NewHandle("attribute", last'.arg.k)]_vars

\* get_size has failed with status 0 on a sub-entry of a stream that is not
\* empty, and has returned the opaque error.
C13_Witness ==
    /\ last.op = "get_size"
    /\ last.calls[1].ret = 0
    /\ last.res = Err("opaque")
    /\ Len(img.data) > 0
    /\ entries[last.self].from # 0

\* C14 as stated: whenever a native call of an operation has reported
\* failure (a status other than 1, a negative count or offset for read and
\* seek), the error object it wrote has been passed to Error::try_from, and
\* has not been left unreleased; libfsntfs_file_entry_free in drop included.
C14_EveryNativeErrorBridged ==
    (\E j \in DOMAIN last.calls :
        IF last.calls[j].fn \in {"read_buffer", "seek_offset"}
        THEN last.calls[j].ret < 0
        ELSE last.calls[j].ret # 1) => last.slot = "bridged"

\* C15: drop makes exactly one native call, libfsntfs_file_entry_free on the
\* object's handle, and returns nothing to the caller; the debug assertion
\* fails exactly in a debug build in which the native free reported an
\* error; in every case the FileEntry is gone afterwards and its handle is
\* not freed again.
C15_DropNeverPropagates ==
    last.op = "drop" =>
       /\ Len(last.calls) = 1
       /\ last.calls[1].fn = "file_entry_free"
       /\ last.res = Ok(0)
       /\ last.panic <=> (last.arg.kind = "debug" /\ last.calls[1].ret # 1)
       /\ ~entries[last.self].live
       /\ nat[last.calls[1].h].kind = "free"
       /\ \A e \in LiveEntries : entries[e].ptr # last.calls[1].h

\* In a debug build the native free has reported an error while a FileEntry
\* was dropped: the assertion has failed and the object is gone.
C15_Witness ==
    /\ last.op = "drop"
    /\ last.arg.kind = "debug"
    /\ last.calls[1].ret = 0 - 1
    /\ last.panic
    /\ ~entries[last.self].live

\* C16 as stated: no public accessor of FileEntry panics, whatever the
\* native library does: every call returns a success or a failure result.
C16_AccessorsNeverPanic ==
    last.op # "drop" => ~last.panic /\ last.res.err \in {"none", "native", "opaque"}

\* C17 as stated: the pointer as_ffi_ptr returns addresses the handle slot
\* of the object, storage that is live after as_ffi_ptr has returned, never
\* a local variable of as_ffi_ptr; a handle the foreign call writes through
\* it is in the object's handle slot afterwards.
C17_FfiPointerAddressesSlot ==
    /\ rt.pc \in {"pointer", "written"} =>
          rt.ptr.target = "slot" /\ rt.ptr.live
    /\ rt.pc = "written" => rt.slot = rt.wrote /\ rt.outcome = "stored"

\* C18 as stated: for every count c of c_int that the native get-count call
\* reports with status 1, the cursor yields at most max(c, 0) items, and
\* every index i its next passes to the native get-by-index call satisfies
\* 0 <= i < c.
C18_CursorWithinSignedCount ==
    \A c \in LiveCursors :
       LET count == IF cursors[c].kind = "attributes" THEN img.nAttr ELSE img.nSub
       IN  /\ Len(cursors[c].out) <= Max(count, 0)
           /\ (last.op = "next" /\ last.self = c /\ last.some) =>
                 /\ 0 <= last.calls[1].a
                 /\ last.calls[1].a < count
====
